---- MODULE Spec2Model ----
(***************************************************************************)
(* State-machine model of the ImageFX client: credential resolution        *)
(* (ImageFX.__init__), token exchange (check_token / get_auth_token),      *)
(* the generation call (generate_image) and the Streamlit "Generate"       *)
(* handler that runs projects in batches of three worker threads.          *)
(*                                                                         *)
(* Python strings that the code measures or inspects (cookies) are         *)
(* sequences of one-character strings; other texts are TLA+ strings.       *)
(* Python's None is a value of its own (None / NoneT), distinct from the   *)
(* empty string; Truthy/TruthyT give Python's truth value.                 *)
(***************************************************************************)
EXTENDS Integers, Sequences, FiniteSets, TLC

\* ------------------------------------------------------------------ bounds
MaxTotalPrompts == 4
ImagesPerCall == 2

MaxEntries == 2

MaxProjects == 2

MaxCliPrompts == 3

\* ------------------------------------------------------- program constants
PromptLimit == 50
batch_size == 3
MinCookieLen == 70

\* ------------------------------------------------------------------ strings
None == <<"None">>
NoneT == "None"

Truthy(s) == s # None /\ s # <<>>

TruthyT(s) == s # NoneT /\ s # ""

RECURSIVE Rep(_, _)
Rep(ch, n) == IF n = 0 THEN <<>> ELSE <<ch>> \o Rep(ch, n - 1)

\* "__Secure-next-auth.session-token="
CookiePrefix ==
    << "_", "_", "S", "e", "c", "u", "r", "e", "-", "n", "e", "x", "t", "-",
       "a", "u", "t", "h", ".", "s", "e", "s", "s", "i", "o", "n", "-", "t",
       "o", "k", "e", "n", "=" >>

startswith(s, p) == Len(s) >= Len(p) /\ SubSeq(s, 1, Len(p)) = p

ShortCookie == Rep("x", MinCookieLen - 1)
LongCookie == Rep("x", MinCookieLen)

\* ------------------------------------------------------- cookie_parser.py
session_keys_Reordered ==
    << "session-token", "__Secure-next-auth.session-token", "auth-token" >>

session_keys == << "__Secure-next-auth.session-token", "session-token", "auth-token" >>

RECURSIVE FirstPresent(_, _, _)
FirstPresent(keys, cookies, i) ==
    IF i > Len(keys) THEN None
    ELSE IF keys[i] \in DOMAIN cookies THEN cookies[keys[i]]
         ELSE FirstPresent(keys, cookies, i + 1)

extract_session_token(cookies) == FirstPresent(session_keys, cookies, 1)

\* The cookie files of the environment: path -> mapping of cookie name to
\* value (the labs.google cookies of the file). A path outside the domain
\* does not exist.
EmptyJar == [n \in {} |-> <<>>]

\* The value a cookie file of the environment gives to a cookie name.
JarValue(n) ==
    IF n = "__Secure-next-auth.session-token" THEN Rep("a", MinCookieLen)
    ELSE IF n = "session-token" THEN Rep("b", MinCookieLen)
    ELSE Rep("c", MinCookieLen)

CookieFiles ==
    [p \in {"notoken.txt", "long.txt", "short.txt", "all.txt", "auth.txt",
            "secure_auth.txt", "blank.txt"} |->
        IF p = "notoken.txt" THEN [n \in {"csrf-token"} |-> Rep("c", 3)]
        ELSE IF p = "short.txt" THEN [n \in {"session-token"} |-> ShortCookie]
        ELSE IF p = "long.txt"
             THEN [n \in {"session-token", "auth-token"} |->
                     IF n = "session-token" THEN LongCookie ELSE ShortCookie]
        ELSE IF p = "all.txt"
             THEN [n \in {"__Secure-next-auth.session-token", "session-token",
                          "auth-token", "csrf-token"} |-> JarValue(n)]
        ELSE IF p = "auth.txt" THEN [n \in {"auth-token"} |-> JarValue(n)]
        ELSE IF p = "secure_auth.txt"
             THEN [n \in {"__Secure-next-auth.session-token", "auth-token"} |->
                     JarValue(n)]
        ELSE [n \in {"session-token", "auth-token"} |->
                 IF n = "session-token" THEN <<>> ELSE JarValue(n)]]

PathExists(path) == path \in DOMAIN CookieFiles

parse_cookie_file(path) == IF PathExists(path) THEN CookieFiles[path] ELSE EmptyJar

get_auth_credentials(path) ==
    [session_token |-> extract_session_token(parse_cookie_file(path))]

\* ------------------------------------------------------- ImageFX.__init__
Credentials(cookie, authorization_key, cookie_file) ==
    [cookie |-> cookie, authorization_key |-> authorization_key,
     cookie_file |-> cookie_file]

ErrMissing == "Authorization token, Cookie, or Cookie file must be provided."
ErrNoValid == "No valid authentication credentials found."
ErrInvalidCookie == "Invalid cookie was provided."
ErrFileNotFound == "Failed to load cookies from file: Cookie file not found"
ErrNoSessionToken == "Failed to load cookies from file: No session token found in cookie file"

\* Result of a constructor or helper: ok, or the message of the ValueError.
Raised(msg, c) == [ok |-> FALSE, err |-> msg, credentials |-> c]

Returned(c) == [ok |-> TRUE, err |-> NoneT, credentials |-> c]

load_cookies_from_file(c) ==
    IF ~PathExists(c.cookie_file) THEN Raised(ErrFileNotFound, c)
    ELSE LET auth_data == get_auth_credentials(c.cookie_file)
         IN  IF Truthy(auth_data.session_token)
             THEN Returned([c EXCEPT !.cookie = auth_data.session_token])
             ELSE Raised(ErrNoSessionToken, c)

CookieTooShort_OffByOne(cookie) == Truthy(cookie) /\ Len(cookie) < MinCookieLen - 1

CookieTooShort(cookie) == Truthy(cookie) /\ Len(cookie) < MinCookieLen

AddPrefix_Always(cookie) == IF Truthy(cookie) THEN CookiePrefix \o cookie ELSE cookie

AddPrefix(cookie) ==
    IF Truthy(cookie) /\ ~startswith(cookie, CookiePrefix)
    THEN CookiePrefix \o cookie
    ELSE cookie

ImageFX_init(credentials) ==
    IF ~TruthyT(credentials.authorization_key) /\ ~Truthy(credentials.cookie)
       /\ ~TruthyT(credentials.cookie_file)
    THEN Raised(ErrMissing, credentials)
    ELSE LET loaded == IF TruthyT(credentials.cookie_file)
                       THEN load_cookies_from_file(credentials)
                       ELSE Returned(credentials)
             c == loaded.credentials
         IN  IF ~loaded.ok THEN loaded
             ELSE IF ~TruthyT(c.authorization_key) /\ ~Truthy(c.cookie)
                  THEN Raised(ErrNoValid, c)
             ELSE IF CookieTooShort(c.cookie)
                  THEN Raised(ErrInvalidCookie, c)
             ELSE Returned([c EXCEPT !.cookie = AddPrefix(c.cookie)])

\* ------------------------------------------------- network environment
\* What the session endpoint answers to one GET: a transport failure (the
\* text of the RequestException), or a 2xx body.
SessionErr(msg) ==
    [ok |-> FALSE, err |-> msg, json |-> FALSE, has_access_token |-> FALSE,
     access_token |-> NoneT]

SessionBody(json, has, tok) ==
    [ok |-> TRUE, err |-> NoneT, json |-> json, has_access_token |-> has,
     access_token |-> tok]

SessionResponses ==
    { SessionErr("401 Client Error"),
      SessionBody(TRUE, FALSE, NoneT),
      SessionBody(TRUE, TRUE, "at1") }

\* What the generation endpoint answers to one POST. A 2xx body is a list of
\* image panels, each a list of image entries.
\* An entry of generatedImages: a JSON object with or without encodedImage
\* and with or without the optional fields (prompt and seed stand for the
\* seven of them), or a JSON value that is no object.
Entry(is_dict, has_encodedImage, k, has_optional) ==
    [is_dict |-> is_dict, has_encodedImage |-> has_encodedImage, encodedImage |-> k,
     has_prompt |-> has_optional, prompt |-> "echo",
     has_seed |-> has_optional, seed |-> 5]

ImageEntry(k) == Entry(TRUE, TRUE, k, TRUE)

\* The first element of imagePanels: a JSON object with or without
\* generatedImages, whose value is a list or something else.
Panel(has, is_list, entries) ==
    [has_generatedImages |-> has, is_list |-> is_list, generatedImages |-> entries]

GenErr(msg) == [ok |-> FALSE, err |-> msg, json |-> FALSE, is_object |-> FALSE,
                has_imagePanels |-> FALSE, imagePanels |-> <<>>]

GenBody(json, has, panels) ==
    [ok |-> TRUE, err |-> NoneT, json |-> json, is_object |-> json,
     has_imagePanels |-> has, imagePanels |-> panels]

\* A 2xx body that is JSON but no object at its top level (a list, null).
GenBodyNotObject == [GenBody(TRUE, FALSE, <<>>) EXCEPT !.is_object = FALSE]

GenResponses ==
    { GenErr("500 Server Error"), GenErr("") }
    \cup { GenBody(TRUE, TRUE,
                   << Panel(TRUE, TRUE, [k \in 1..ImagesPerCall |-> ImageEntry(k)]) >>) }

\* ------------------------------------------------ check_token and friends
\* A method's result with the Credentials as the method leaves them; wrote
\* tells whether authorization_key was assigned (line 281).
Ok(c, wrote) == [tag |-> "Ok", err |-> NoneT, credentials |-> c, wrote |-> wrote]

Err(msg, c, wrote) == [tag |-> "Err", err |-> msg, credentials |-> c, wrote |-> wrote]

ErrBothMissing == "Authorization token and Cookie both are missing."
ErrCookieRequired == "Cookie is required for generating auth token."
ErrTokenMissing == "Access token is missing from response"
ErrSessionParse == "Failed to parse response"
ErrNoToken == "Failed to obtain authorization token from cookie"

\* check_token up to the point where it either returns or has to wait for
\* the session endpoint: "Err", "Ok" (no exchange needed) or "exchange".
NeedsExchange_OrForAnd(c) == ~Truthy(c.cookie) \/ ~TruthyT(c.authorization_key)

NeedsExchange(c) == Truthy(c.cookie) /\ ~TruthyT(c.authorization_key)

check_token_before_NoExchange(c) ==
    IF ~TruthyT(c.authorization_key) /\ ~Truthy(c.cookie) THEN "Err" ELSE "Ok"

check_token_before(c) ==
    IF ~TruthyT(c.authorization_key) /\ ~Truthy(c.cookie) THEN "Err"
    ELSE IF NeedsExchange(c) THEN "exchange"
    ELSE "Ok"

\* get_auth_token after its GET returned resp.
get_auth_token(c, resp, mutate) ==
    IF ~resp.ok THEN Err(resp.err, c, FALSE)
    ELSE IF ~resp.json THEN Err(ErrSessionParse, c, FALSE)
    ELSE IF ~resp.has_access_token THEN Err(ErrTokenMissing, c, FALSE)
    ELSE IF mutate THEN Ok([c EXCEPT !.authorization_key = resp.access_token], TRUE)
    ELSE Ok(c, FALSE)

\* check_token (Streamlit client) after the exchange returned resp.
check_token_after_IgnoresErr(c, resp) ==
    LET result == get_auth_token(c, resp, TRUE)
    IN  Ok(result.credentials, result.wrote)

check_token_after(c, resp) ==
    LET result == get_auth_token(c, resp, TRUE)
    IN  IF result.tag = "Err" THEN result
        ELSE IF ~TruthyT(result.credentials.authorization_key)
             THEN Err(ErrNoToken, result.credentials, result.wrote)
        ELSE result

\* ------------------------------------- generate_image: the request body
\* An optional integer (count, seed): <<>> is None, <<n>> is the integer n.
NoneI == <<>>

TruthyI(x) == x # NoneI /\ x[1] # 0

\* Python's `x or d` for an optional integer x.
OrDefault_NoneOnly(x, d) == IF x # NoneI THEN x[1] ELSE d

OrDefault(x, d) == IF TruthyI(x) THEN x[1] ELSE d

\* Python's `s or d` for a text.
OrText(s, d) == IF TruthyT(s) THEN s ELSE d

Prompt(prompt, count, seed, model, aspect_ratio) ==
    [prompt |-> prompt, count |-> count, seed |-> seed, model |-> model,
     aspect_ratio |-> aspect_ratio]

RequestBody(count, text, seed, aspectRatio, modelNameType) ==
    [candidatesCount |-> count, prompts |-> << text >>, seed |-> seed,
     aspectRatio |-> aspectRatio, modelNameType |-> modelNameType]

\* Streamlit client, lines 294-306.
actual_model_NoAlias(prompt) ==
    IF prompt.model = "IMAGEN_3" THEN prompt.aspect_ratio ELSE prompt.model

actual_model(prompt) ==
    IF prompt.model = "IMAGEN_3" THEN prompt.aspect_ratio
    ELSE IF prompt.model = "IMAGEN_4" THEN "IMAGEN_3_5"
    ELSE prompt.model

aspect_ratio(prompt) ==
    IF prompt.model = "IMAGEN_3" THEN "IMAGE_ASPECT_RATIO_UNSPECIFIED"
    ELSE prompt.aspect_ratio

\* Streamlit client, lines 308-317.
request_body(prompt) ==
    RequestBody(OrDefault(prompt.count, 4), prompt.prompt, OrDefault(prompt.seed, 0),
                aspect_ratio(prompt), actual_model(prompt))

\* Library client (imagefx.py), lines 208-210: the caller's Prompt object is
\* changed in place.
lib_prompt_after(prompt) ==
    IF prompt.model = "IMAGEN_4" THEN [prompt EXCEPT !.model = "IMAGEN_3_5"]
    ELSE prompt

\* Library client, lines 212-221.
lib_request_body(prompt) ==
    LET p == lib_prompt_after(prompt)
    IN  RequestBody(OrDefault(p.count, 4), p.prompt, OrDefault(p.seed, 0),
                    OrText(p.aspect_ratio, "IMAGE_ASPECT_RATIO_LANDSCAPE"),
                    OrText(p.model, "IMAGEN_3_5"))

\* ------------------------------------------- generate_image, after the POST
GeneratedImage(entry, prompt_text) ==
    [encoded_image |-> entry.encodedImage,
     prompt |-> IF entry.has_prompt THEN entry.prompt ELSE prompt_text,
     seed |-> IF entry.has_seed THEN entry.seed ELSE 0,
     project_title |-> NoneT]

\* Lines 352-371 (Streamlit client): an entry without encodedImage is skipped.
RECURSIVE ConvertImages(_, _)
ConvertImages(entries, prompt_text) ==
    IF entries = <<>> THEN <<>>
    ELSE LET rest == ConvertImages(Tail(entries), prompt_text)
         IN  IF Head(entries).has_encodedImage
             THEN <<GeneratedImage(Head(entries), prompt_text)>> \o rest
             ELSE rest

GenOk(images) == [tag |-> "Ok", err |-> NoneT, images |-> images]

GenFail(msg) == [tag |-> "Err", err |-> msg, images |-> <<>>]

\* generate_image does not return: the exception leaves it.
GenRaise(msg) == [tag |-> "Raise", err |-> msg, images |-> <<>>]

\* Streamlit client, lines 326-378.
generate_image_after(resp, prompt_text) ==
    IF ~resp.ok THEN GenFail(resp.err)
    ELSE IF ~resp.json THEN GenFail("Failed to parse JSON")
    ELSE IF ~resp.is_object THEN GenFail("Unexpected response structure")
    ELSE IF ~resp.has_imagePanels THEN GenFail("Unexpected response structure")
    ELSE IF resp.imagePanels = <<>> THEN GenFail("No image panels in response")
    ELSE LET panel == resp.imagePanels[1]
             images == IF panel.has_generatedImages THEN panel.generatedImages ELSE <<>>
             generated_images == ConvertImages(images, prompt_text)
         IN  IF panel.has_generatedImages /\ ~panel.is_list
             THEN GenFail("Invalid response received")
             ELSE IF images = <<>> THEN GenFail("No images generated")
             ELSE IF \E k \in 1..Len(images) : ~images[k].is_dict
                  THEN GenFail("Unexpected error")
             ELSE IF generated_images = <<>>
                  THEN GenFail("Failed to parse any images from response")
             ELSE GenOk(generated_images)

\* Library client (imagefx.py), lines 240-252: every field is read with
\* img[...]; the first entry that lacks one ends the loop with a KeyError, an
\* entry that is no object with a TypeError.
RECURSIVE lib_convert(_)
lib_convert(entries) ==
    IF entries = <<>> THEN GenOk(<<>>)
    ELSE LET e == Head(entries)
             rest == lib_convert(Tail(entries))
         IN  IF ~e.is_dict THEN GenRaise("TypeError")
             ELSE IF ~(e.has_encodedImage /\ e.has_seed /\ e.has_prompt)
                  THEN GenFail("Failed to parse JSON")
             ELSE IF rest.tag # "Ok" THEN rest
             ELSE GenOk(<< [encoded_image |-> e.encodedImage, prompt |-> e.prompt,
                            seed |-> e.seed, project_title |-> NoneT] >>
                        \o rest.images)

\* Library client, lines 230-257.
lib_generate_image_after(resp) ==
    IF ~resp.ok THEN GenFail(resp.err)
    ELSE IF ~resp.json THEN GenFail("Failed to parse JSON")
    ELSE IF ~resp.is_object THEN GenRaise("TypeError")
    ELSE IF ~resp.has_imagePanels THEN GenFail("Failed to parse JSON")
    ELSE IF resp.imagePanels = <<>> THEN GenRaise("IndexError")
    ELSE LET panel == resp.imagePanels[1]
         IN  IF ~panel.has_generatedImages THEN GenFail("Failed to parse JSON")
             ELSE IF ~panel.is_list THEN GenFail("Invalid response received")
             ELSE lib_convert(panel.generatedImages)

\* --------------------------------------------------------- the inputs
TitleOf(p) == << "A", "B", "C", "D", "E", "F" >>[p]

Words ==
    << << "cat", "dog", "fish", "ant", "bee", "cow" >>,
       << "bird", "wolf", "frog", "crab", "duck", "goat" >>,
       << "sun", "moon", "star", "rain", "snow", "wind" >>,
       << "oak", "elm", "fir", "ash", "yew", "bay" >>,
       << "red", "blue", "pink", "grey", "gold", "teal" >>,
       << "one", "two", "six", "ten", "nine", "five" >> >>

PromptText(p, i) == Words[p][((i - 1) % 6) + 1]

Project(p, n) == [title |-> TitleOf(p), prompts |-> [i \in 1..n |-> PromptText(p, i)]]

RECURSIVE SumSeq(_)
SumSeq(s) == IF s = <<>> THEN 0 ELSE Head(s) + SumSeq(Tail(s))

\* Prompt counts within the limit cost one unit each; an oversized project is
\* rejected before anything runs and costs nothing.
Cost(n) == IF n > PromptLimit THEN 0 ELSE n

PromptCounts == (1..MaxTotalPrompts) \cup {PromptLimit + 1}

CountLists ==
    UNION { [1..k -> PromptCounts] : k \in 0..MaxTotalPrompts }

ProjectLists ==
    { [p \in 1..Len(ns) |-> Project(p, ns[p])] :
        ns \in { c \in CountLists :
                   SumSeq([p \in 1..Len(c) |-> Cost(c[p])]) <= MaxTotalPrompts } }

\* The sidebar offers exactly one authentication method per script run.
SidebarInputs ==
    { Credentials(None, a, NoneT) : a \in {"", "tok"} }
    \cup { Credentials(ck, NoneT, NoneT) : ck \in {ShortCookie, LongCookie} }
    \cup { Credentials(None, NoneT, f) : f \in {"notoken.txt", "long.txt", "gone.txt"} }

StaleImage == [encoded_image |-> 1, prompt |-> "old", seed |-> 0, project_title |-> "Old"]
StaleFailure == [prompt |-> "old", error |-> "old error", index |-> 1, project_title |-> "Old"]

\* st.session_state as a script run finds it: fresh, or left by a finished run.
SessionStates ==
    { [generation_complete |-> FALSE, all_generated_images |-> <<>>, failed_prompts |-> <<>>],
      [generation_complete |-> TRUE, all_generated_images |-> <<StaleImage>>,
       failed_prompts |-> <<StaleFailure>>] }

\* ------------------------------------------------------------------ state
VARIABLES
    cookie, auth_token, cookie_file,
    project_inputs, projects,
    generating, generation_complete, all_generated_images, failed_prompts,
    pc, valid_projects, project_idx, batch_start,
    wpc, wcred, batch_results,
    sessionCalls, genCalls, tokenWrites, outcome,
    client, request, reply, cli

inputs == << cookie, auth_token, cookie_file, project_inputs, projects >>
session == << generating, generation_complete, all_generated_images, failed_prompts >>
locals == << valid_projects, project_idx, batch_start >>
workers == << wpc, wcred, batch_results >>
ghosts == << sessionCalls, genCalls, tokenWrites, outcome >>
\* Clients used directly, outside the Generate handler.
direct == << client, request, reply, cli >>
vars == << inputs, session, pc, locals, workers, ghosts, direct >>

JobIds == (1..MaxTotalPrompts) \X (1..MaxTotalPrompts)

NoCred == Credentials(None, NoneT, NoneT)

\* No ImageFX instance has been constructed on the handler's own path.
\* first keeps the Credentials as the first construction left them, again
\* tells that the same Credentials object was handed to a second ImageFX.
NoClient ==
    [made |-> FALSE, ok |-> FALSE, err |-> NoneT, credentials |-> NoCred,
     again |-> FALSE, first |-> NoCred]

\* No request body has been built outside the handler.
NoPrompt == Prompt("", NoneI, NoneI, "", "")

NoRequest ==
    [impl |-> "none", prompt |-> NoPrompt, prompt_after |-> NoPrompt,
     body |-> RequestBody(0, "", 0, "", "")]

\* The command-line program (imagefx_cli.py) is not running.
NoCli ==
    [pc |-> "none", prompts |-> <<>>, credentials |-> NoCred, prompt_index |-> 0,
     attempts |-> <<>>, all_generated_images |-> <<>>, saved |-> <<>>]

\* No response has been decoded outside the handler.
NoReply ==
    [impl |-> "none", resp |-> GenErr(""), prompt_text |-> "", result |-> GenFail("")]

\* The widgets of the project section (lines 787-926): the mode chosen and,
\* per project, the title typed and the non-blank lines of its prompts.
ProjectInputs(project_mode, slots) == [project_mode |-> project_mode, slots |-> slots]

BlankSlot == [title |-> "", prompts |-> <<>>]

\* Widgets that leave the stored lists as prs: the projects themselves, or a
\* blank project when nothing is stored.
InputsFor(prs) ==
    ProjectInputs("Batch Projects", IF prs = <<>> THEN << BlankSlot >> ELSE prs)

Init ==
    /\ \E c \in SidebarInputs :
         /\ cookie = c.cookie
         /\ auth_token = c.authorization_key
         /\ cookie_file = c.cookie_file
    /\ projects \in ProjectLists
    /\ project_inputs = InputsFor(projects)
    /\ generating = FALSE
    /\ \E s \in SessionStates :
         /\ generation_complete = s.generation_complete
         /\ all_generated_images = s.all_generated_images
         /\ failed_prompts = s.failed_prompts
    /\ pc = "idle"
    /\ valid_projects = <<>>
    /\ project_idx = 0
    /\ batch_start = 0
    /\ wpc = [j \in JobIds |-> "none"]
    /\ wcred = [j \in JobIds |-> NoCred]
    /\ batch_results = <<>>
    /\ sessionCalls = 0
    /\ genCalls = 0
    /\ tokenWrites = [j \in JobIds |-> 0]
    /\ outcome = [j \in JobIds |-> "none"]
    /\ client = NoClient
    /\ request = NoRequest
    /\ reply = NoReply
    /\ cli = NoCli

\* --------------------------------------- the Generate handler: validation
\* Lines 1031-1054: every stored project needs a title and a prompt.
ProjectOk(pr) == pr.title # "" /\ pr.prompts # <<>>

InputOk == projects # <<>> /\ \A p \in 1..Len(projects) : ProjectOk(projects[p])

MakeValidProjects(prs) ==
    [p \in 1..Len(prs) |->
        [title |-> prs[p].title, prompts |-> prs[p].prompts, project_index |-> p]]

\* Lines 1090-1097.
CredentialsGiven == Truthy(cookie) \/ TruthyT(auth_token) \/ TruthyT(cookie_file)

CookieFileFound == ~TruthyT(cookie_file) \/ PathExists(cookie_file)

\* Lines 1125-1130.
TooManyPrompts_OffByOne(vps) ==
    \E p \in 1..Len(vps) : Len(vps[p].prompts) > PromptLimit + 1

TooManyPrompts(vps) == \E p \in 1..Len(vps) : Len(vps[p].prompts) > PromptLimit

\* The handler returns at one of the checks that precede line 1100: session
\* state is left as it was.
RejectInput ==
    /\ pc = "idle"
    /\ ~InputOk
    /\ pc' = "returned"
    /\ UNCHANGED << inputs, session, locals, workers, ghosts, direct >>

RejectCredentials ==
    /\ pc = "idle"
    /\ InputOk
    /\ ~CredentialsGiven \/ ~CookieFileFound
    /\ pc' = "returned"
    /\ UNCHANGED << inputs, session, locals, workers, ghosts, direct >>

RejectTooManyPrompts_StaysGenerating ==
    /\ pc = "idle"
    /\ InputOk /\ CredentialsGiven /\ CookieFileFound
    /\ TooManyPrompts(MakeValidProjects(projects))
    /\ valid_projects' = MakeValidProjects(projects)
    /\ all_generated_images' = <<>>
    /\ failed_prompts' = <<>>
    /\ generation_complete' = FALSE
    /\ generating' = TRUE
    /\ pc' = "rejected"
    /\ UNCHANGED << inputs, project_idx, batch_start, workers, ghosts, direct >>

\* Lines 1100-1130 with a project over the limit: the run's state is reset,
\* generating is switched on and off again, and the handler returns.
RejectTooManyPrompts ==
    /\ pc = "idle"
    /\ InputOk /\ CredentialsGiven /\ CookieFileFound
    /\ TooManyPrompts(MakeValidProjects(projects))
    /\ valid_projects' = MakeValidProjects(projects)
    /\ all_generated_images' = <<>>
    /\ failed_prompts' = <<>>
    /\ generation_complete' = FALSE
    /\ generating' = FALSE
    /\ pc' = "rejected"
    /\ UNCHANGED << inputs, project_idx, batch_start, workers, ghosts, direct >>

\* Lines 1100-1228: the run starts with the first project.
StartRun ==
    /\ pc = "idle"
    /\ InputOk /\ CredentialsGiven /\ CookieFileFound
    /\ ~TooManyPrompts(MakeValidProjects(projects))
    /\ valid_projects' = MakeValidProjects(projects)
    /\ all_generated_images' = <<>>
    /\ failed_prompts' = <<>>
    /\ generation_complete' = FALSE
    /\ generating' = TRUE
    /\ project_idx' = 1
    /\ batch_start' = 0
    /\ pc' = "running"
    /\ UNCHANGED << inputs, workers, ghosts, direct >>

\* ------------------------------------------------ batches (lines 1256-1280)
project_prompts == valid_projects[project_idx].prompts

batch_end == IF batch_start + batch_size < Len(project_prompts)
             THEN batch_start + batch_size ELSE Len(project_prompts)

BatchIndexes_Overlap == (IF batch_start = 0 THEN 1 ELSE batch_start)..batch_end

\* enumerate(project_prompts[batch_start:batch_end], batch_start + 1)
BatchIndexes == (batch_start + 1)..batch_end

BatchJobs == { << project_idx, i >> : i \in BatchIndexes }

\* executor.submit for every prompt of the batch; the handler then waits in
\* as_completed.
SubmitBatch ==
    /\ pc = "running"
    /\ wpc' = [j \in JobIds |-> IF j \in BatchJobs THEN "queued" ELSE wpc[j]]
    /\ batch_results' = <<>>
    /\ pc' = "waiting"
    /\ UNCHANGED << inputs, session, locals, wcred, ghosts, direct >>

\* ------------------------------- process_single_prompt (lines 1147-1193)
max_workers == batch_size

Running == { j \in JobIds : wpc[j] \in {"exchange", "post"} }

InFlight == { j \in JobIds : wpc[j] \in {"queued", "exchange", "post"} }

ErrorTuple(prompt_index, prompt_text, msg) ==
    [images |-> <<>>, prompt_text |-> prompt_text, error |-> msg,
     error_data |-> << [prompt |-> prompt_text, error |-> msg,
                        index |-> prompt_index + 1] >>]

SuccessTuple_KeepsEcho(images, prompt_text) ==
    [images |-> images, prompt_text |-> prompt_text, error |-> NoneT, error_data |-> <<>>]

\* Lines 1180-1184: every image's prompt is overwritten with prompt_text.
SuccessTuple(images, prompt_text) ==
    [images |-> [k \in 1..Len(images) |-> [images[k] EXCEPT !.prompt = prompt_text]],
     prompt_text |-> prompt_text, error |-> NoneT, error_data |-> <<>>]

JobText(j) == valid_projects[j[1]].prompts[j[2]]

\* as_completed hands a future over when it completes (lines 1285-1313):
\* batch_results is in completion order.
BatchEntry(j, result) ==
    [prompt_index |-> j[2], prompt_text |-> result.prompt_text,
     images |-> result.images, error |-> result.error,
     error_data |-> result.error_data,
     project_title |-> valid_projects[project_idx].title]

\* kind records how the attempt ended: "raised" (the constructor raised),
\* "token_err" (check_token returned Err), "gen_err" (the POST or its
\* decoding returned Err) or "ok".
Finish(j, result, kind) ==
    /\ wpc' = [wpc EXCEPT ![j] = "done"]
    /\ wcred' = [wcred EXCEPT ![j] = NoCred]
    /\ batch_results' = Append(batch_results, BatchEntry(j, result))
    /\ outcome' = [outcome EXCEPT ![j] = kind]

\* A pool thread takes the job: Credentials and ImageFX are constructed,
\* generate_image runs up to its first network call.
WorkerStart(j) ==
    /\ wpc[j] = "queued"
    /\ Cardinality(Running) < max_workers
    /\ LET made == ImageFX_init(Credentials(cookie, auth_token, cookie_file))
           c == made.credentials
           step == check_token_before(c)
       IN  IF ~made.ok
           THEN /\ Finish(j, ErrorTuple(j[2], JobText(j), made.err), "raised")
                /\ UNCHANGED << sessionCalls, genCalls >>
           ELSE IF step = "Err"
           THEN /\ Finish(j, ErrorTuple(j[2], JobText(j), ErrBothMissing), "token_err")
                /\ UNCHANGED << sessionCalls, genCalls >>
           ELSE IF step = "exchange" /\ ~Truthy(c.cookie)
           THEN /\ Finish(j, ErrorTuple(j[2], JobText(j), ErrCookieRequired), "token_err")
                /\ UNCHANGED << sessionCalls, genCalls >>
           ELSE IF step = "exchange"
           THEN /\ wpc' = [wpc EXCEPT ![j] = "exchange"]
                /\ wcred' = [wcred EXCEPT ![j] = c]
                /\ sessionCalls' = sessionCalls + 1
                /\ UNCHANGED << batch_results, genCalls, outcome >>
           ELSE /\ wpc' = [wpc EXCEPT ![j] = "post"]
                /\ wcred' = [wcred EXCEPT ![j] = c]
                /\ genCalls' = genCalls + 1
                /\ UNCHANGED << batch_results, sessionCalls, outcome >>
    /\ UNCHANGED << inputs, session, pc, locals, tokenWrites, direct >>

WorkerExchangeReturn_SharedCredentials(j) ==
    /\ wpc[j] = "exchange"
    /\ \E resp \in SessionResponses :
         LET result == check_token_after(wcred[j], resp)
         IN  /\ tokenWrites' = [tokenWrites EXCEPT
                                  ![j] = @ + (IF result.wrote THEN 1 ELSE 0)]
             /\ IF result.tag = "Err"
                THEN /\ Finish(j, ErrorTuple(j[2], JobText(j), result.err), "token_err")
                     /\ UNCHANGED genCalls
                ELSE /\ wpc' = [wpc EXCEPT ![j] = "post"]
                     /\ wcred' = [k \in JobIds |->
                                    IF k = j \/ wpc[k] \in {"exchange", "post"}
                                    THEN result.credentials ELSE wcred[k]]
                     /\ genCalls' = genCalls + 1
                     /\ UNCHANGED << batch_results, outcome >>
    /\ UNCHANGED << inputs, session, pc, locals, sessionCalls, direct >>

\* The session endpoint answers: check_token finishes, and generate_image
\* goes on to its POST unless check_token returned Err.
WorkerExchangeReturn(j) ==
    /\ wpc[j] = "exchange"
    /\ \E resp \in SessionResponses :
         LET result == check_token_after(wcred[j], resp)
         IN  /\ tokenWrites' = [tokenWrites EXCEPT
                                  ![j] = @ + (IF result.wrote THEN 1 ELSE 0)]
             /\ IF result.tag = "Err"
                THEN /\ Finish(j, ErrorTuple(j[2], JobText(j), result.err), "token_err")
                     /\ UNCHANGED genCalls
                ELSE /\ wpc' = [wpc EXCEPT ![j] = "post"]
                     /\ wcred' = [wcred EXCEPT ![j] = result.credentials]
                     /\ genCalls' = genCalls + 1
                     /\ UNCHANGED << batch_results, outcome >>
    /\ UNCHANGED << inputs, session, pc, locals, sessionCalls, direct >>

\* The generation endpoint answers: generate_image returns and the worker
\* returns its tuple.
WorkerPostReturn(j) ==
    /\ wpc[j] = "post"
    /\ \E resp \in GenResponses :
         LET result == generate_image_after(resp, JobText(j))
         IN  IF result.tag = "Err"
             THEN Finish(j, ErrorTuple(j[2], JobText(j), result.err), "gen_err")
             ELSE Finish(j, SuccessTuple(result.images, JobText(j)), "ok")
    /\ UNCHANGED << inputs, session, pc, locals, sessionCalls, genCalls,
                    tokenWrites, direct >>

\* ------------------------------------ processing a batch (lines 1316-1341)
\* as_completed is exhausted once every future of the batch has completed.
Joined_FirstToFinish == \E j \in BatchJobs : wpc[j] = "done"

Joined_WaitsForever == \A j \in BatchJobs : wpc[j] = "joined"

Joined == \A j \in BatchJobs : wpc[j] = "done"

\* Lines 1316-1341 for one entry of batch_results.
RecordFailure(fails, r) ==
    IF TruthyT(r.error) /\ r.error_data # <<>>
    THEN Append(fails, [prompt |-> r.error_data[1].prompt,
                        error |-> r.error_data[1].error,
                        index |-> r.error_data[1].index,
                        project_title |-> r.project_title])
    ELSE fails

RecordImages_Prepends(imgs, r) ==
    IF ~TruthyT(r.error) /\ r.images # <<>>
    THEN [k \in 1..Len(r.images) |->
             [r.images[k] EXCEPT !.project_title = r.project_title]] \o imgs
    ELSE imgs

RecordImages_Replaces(imgs, r) ==
    IF ~TruthyT(r.error) /\ r.images # <<>>
    THEN [k \in 1..Len(r.images) |->
             [r.images[k] EXCEPT !.project_title = r.project_title]]
    ELSE imgs

RecordImages(imgs, r) ==
    IF ~TruthyT(r.error) /\ r.images # <<>>
    THEN imgs \o [k \in 1..Len(r.images) |->
                     [r.images[k] EXCEPT !.project_title = r.project_title]]
    ELSE imgs

RECURSIVE FoldFailures(_, _)
FoldFailures(fails, results) ==
    IF results = <<>> THEN fails
    ELSE FoldFailures(RecordFailure(fails, Head(results)), Tail(results))

RECURSIVE FoldImages(_, _)
FoldImages(imgs, results) ==
    IF results = <<>> THEN imgs
    ELSE FoldImages(RecordImages(imgs, Head(results)), Tail(results))

LastBatch == batch_end >= Len(project_prompts)

LastProject_OffByOne == project_idx >= Len(valid_projects) - 1

LastProject == project_idx >= Len(valid_projects)

ProcessResults ==
    /\ failed_prompts' = FoldFailures(failed_prompts, batch_results)
    /\ all_generated_images' = FoldImages(all_generated_images, batch_results)
    /\ wpc' = [j \in JobIds |->
                 IF j \in BatchJobs /\ wpc[j] = "done" THEN "joined" ELSE wpc[j]]
    /\ batch_results' = <<>>

\* The batch is processed and the loops go on with the next batch or project.
NextBatch ==
    /\ pc = "waiting"
    /\ Joined
    /\ ~(LastBatch /\ LastProject)
    /\ ProcessResults
    /\ IF LastBatch
       THEN project_idx' = project_idx + 1 /\ batch_start' = 0
       ELSE project_idx' = project_idx /\ batch_start' = batch_start + batch_size
    /\ pc' = "running"
    /\ UNCHANGED << inputs, generating, generation_complete, valid_projects,
                    wcred, ghosts, direct >>

\* The last batch of the last project is processed; lines 1369-1372.
Complete ==
    /\ pc = "waiting"
    /\ Joined
    /\ LastBatch /\ LastProject
    /\ ProcessResults
    /\ generation_complete' = TRUE
    /\ generating' = FALSE
    /\ pc' = "complete"
    /\ UNCHANGED << inputs, locals, wcred, ghosts, direct >>

\* ---------------------------------------------------------- specification
Next ==
    \/ RejectInput
    \/ RejectCredentials
    \/ RejectTooManyPrompts
    \/ StartRun
    \/ SubmitBatch
    \/ \E j \in JobIds : WorkerStart(j)
    \/ \E j \in JobIds : WorkerExchangeReturn(j)
    \/ \E j \in JobIds : WorkerPostReturn(j)
    \/ NextBatch
    \/ Complete

Spec == Init /\ [][Next]_vars

\* Threads are scheduled and every network call returns.
FairSpec == Spec /\ WF_vars(Next)

\* ------------------------------------- constructing a client on its own
\* ImageFX(credentials) called with any combination of the three fields of
\* Credentials (a library caller is not bound to the sidebar's one method).
CookieValues ==
    { None, <<>>, Rep("x", 1), ShortCookie, LongCookie,
      CookiePrefix \o Rep("x", MinCookieLen - 1 - Len(CookiePrefix)),
      CookiePrefix \o LongCookie }

TokenValues == { NoneT, "", "tok" }

PathValues ==
    { NoneT, "", "notoken.txt", "long.txt", "short.txt", "gone.txt", "all.txt",
      "auth.txt", "secure_auth.txt", "blank.txt" }

ResolveInit ==
    /\ cookie \in CookieValues
    /\ auth_token \in TokenValues
    /\ cookie_file \in PathValues
    /\ projects = <<>>
    /\ project_inputs = InputsFor(<<>>)
    /\ generating = FALSE
    /\ generation_complete = FALSE
    /\ all_generated_images = <<>>
    /\ failed_prompts = <<>>
    /\ pc = "idle"
    /\ valid_projects = <<>>
    /\ project_idx = 0
    /\ batch_start = 0
    /\ wpc = [j \in JobIds |-> "none"]
    /\ wcred = [j \in JobIds |-> NoCred]
    /\ batch_results = <<>>
    /\ sessionCalls = 0
    /\ genCalls = 0
    /\ tokenWrites = [j \in JobIds |-> 0]
    /\ outcome = [j \in JobIds |-> "none"]
    /\ client = NoClient
    /\ request = NoRequest
    /\ reply = NoReply
    /\ cli = NoCli

Construct ==
    /\ ~client.made
    /\ LET made == ImageFX_init(Credentials(cookie, auth_token, cookie_file))
       IN  client' = [made |-> TRUE, ok |-> made.ok, err |-> made.err,
                      credentials |-> made.credentials,
                      again |-> FALSE, first |-> made.credentials]
    /\ UNCHANGED << inputs, session, pc, locals, workers, ghosts, request, reply, cli >>

\* ImageFX(credentials) once more, with the Credentials object the first
\* construction resolved in place.
Reconstruct ==
    /\ client.made /\ client.ok /\ ~client.again
    /\ LET made == ImageFX_init(client.credentials)
       IN  client' = [client EXCEPT !.ok = made.ok, !.err = made.err,
                                    !.credentials = made.credentials,
                                    !.again = TRUE]
    /\ UNCHANGED << inputs, session, pc, locals, workers, ghosts, request, reply, cli >>

ResolveNext == Construct \/ Reconstruct

ResolveSpec == ResolveInit /\ [][ResolveNext]_vars

\* ------------------------------------ building a request body on its own
\* Both clients' generate_image, up to the POST, for any Prompt a caller
\* can hand over.
HandlerIdle ==
    /\ projects = <<>>
    /\ project_inputs = InputsFor(<<>>)
    /\ generating = FALSE
    /\ generation_complete = FALSE
    /\ all_generated_images = <<>>
    /\ failed_prompts = <<>>
    /\ pc = "idle"
    /\ valid_projects = <<>>
    /\ project_idx = 0
    /\ batch_start = 0
    /\ wpc = [j \in JobIds |-> "none"]
    /\ wcred = [j \in JobIds |-> NoCred]
    /\ batch_results = <<>>
    /\ sessionCalls = 0
    /\ genCalls = 0
    /\ tokenWrites = [j \in JobIds |-> 0]
    /\ outcome = [j \in JobIds |-> "none"]

Models == { "IMAGEN_4", "IMAGEN_3", "IMAGEN_2", "IMAGEN_3_1", "IMAGEN_3_5", "" }

Imagen3Variants ==
    { "IMAGEN_3_LANDSCAPE", "IMAGEN_3_PORTRAIT", "IMAGEN_3_PORTRAIT_THREE_FOUR",
      "IMAGEN_3_LANDSCAPE_FOUR_THREE" }

AspectRatios ==
    Imagen3Variants
    \cup { "IMAGE_ASPECT_RATIO_LANDSCAPE", "IMAGE_ASPECT_RATIO_UNSPECIFIED", "" }

Counts == { NoneI, << 0 - 1 >>, << 0 >>, << 1 >>, << 4 >>, << 10 >> }

Seeds == { NoneI, << 0 >>, << 7 >> }

Prompts ==
    { Prompt("cat", c, sd, m, a) : c \in Counts, sd \in Seeds, m \in Models,
                                   a \in AspectRatios }

PayloadInit ==
    /\ cookie = None /\ auth_token = "tok" /\ cookie_file = NoneT
    /\ HandlerIdle
    /\ client = NoClient
    /\ request \in { [NoRequest EXCEPT !.prompt = p, !.prompt_after = p] : p \in Prompts }
    /\ reply = NoReply
    /\ cli = NoCli

BuildStreamlit ==
    /\ request.impl = "none"
    /\ request' = [request EXCEPT !.impl = "streamlit",
                                  !.body = request_body(request.prompt)]
    /\ UNCHANGED << inputs, session, pc, locals, workers, ghosts, client, reply, cli >>

BuildLibrary ==
    /\ request.impl = "none"
    /\ request' = [request EXCEPT !.impl = "library",
                                  !.prompt_after = lib_prompt_after(request.prompt),
                                  !.body = lib_request_body(request.prompt)]
    /\ UNCHANGED << inputs, session, pc, locals, workers, ghosts, client, reply, cli >>

PayloadNext == BuildStreamlit \/ BuildLibrary

PayloadSpec == PayloadInit /\ [][PayloadNext]_vars

\* ------------------------------------------ decoding a response on its own
\* generate_image applied to one upstream response, by either client.

EntryKinds ==
    { Entry(TRUE, TRUE, 1, TRUE),      \* every field present
      Entry(TRUE, TRUE, 2, FALSE),     \* encodedImage only
      Entry(TRUE, FALSE, 0, TRUE),     \* no encodedImage
      Entry(FALSE, FALSE, 0, FALSE) }  \* not a JSON object

EntryLists == UNION { [1..n -> EntryKinds] : n \in 0..MaxEntries }

ParseResponses ==
    { GenBody(FALSE, FALSE, <<>>),
      GenBodyNotObject,
      GenBody(TRUE, FALSE, <<>>),
      GenBody(TRUE, TRUE, <<>>),
      GenBody(TRUE, TRUE, << Panel(FALSE, TRUE, <<>>) >>),
      GenBody(TRUE, TRUE, << Panel(TRUE, FALSE, <<>>) >>) }
    \cup { GenBody(TRUE, TRUE, << Panel(TRUE, TRUE, l) >>) : l \in EntryLists }

ParseInit ==
    /\ cookie = None
    /\ auth_token = "tok"
    /\ cookie_file = NoneT
    /\ HandlerIdle
    /\ client = NoClient
    /\ request = NoRequest
    /\ reply \in { [NoReply EXCEPT !.resp = r, !.prompt_text = t] :
                      r \in ParseResponses, t \in {"cat", "dog"} }
    /\ cli = NoCli

ParseStreamlit ==
    /\ reply.impl = "none"
    /\ reply' = [reply EXCEPT !.impl = "streamlit",
                              !.result = generate_image_after(reply.resp, reply.prompt_text)]
    /\ UNCHANGED << inputs, session, pc, locals, workers, ghosts, client, request, cli >>

ParseLibrary ==
    /\ reply.impl = "none"
    /\ reply' = [reply EXCEPT !.impl = "library",
                              !.result = lib_generate_image_after(reply.resp)]
    /\ UNCHANGED << inputs, session, pc, locals, workers, ghosts, client, request, cli >>

ParseNext == ParseStreamlit \/ ParseLibrary

ParseSpec == ParseInit /\ [][ParseNext]_vars

\* ------------------------------------- a script run from the widgets on
\* A click on Generate re-runs the script: the project section stores what
\* the widgets hold (lines 841-843 and 919-926), then the handler runs.

\* Lines 919-923 (batch) and 842-843 (single): a project is stored only when
\* both its title and its prompts are non-blank.
StoreProjects(slots) == SelectSeq(slots, ProjectOk)

SlotKinds(p) ==
    { Project(p, 1),
      Project(p, PromptLimit + 1),
      [title |-> "", prompts |-> Project(p, 1).prompts],
      [title |-> TitleOf(p), prompts |-> <<>>] }

SlotLists(n) ==
    { sl \in [1..n -> UNION { SlotKinds(p) : p \in 1..n }] :
         \A p \in 1..n : sl[p] \in SlotKinds(p) }

Configurations ==
    { ProjectInputs("Single Project", sl) : sl \in SlotLists(1) }
    \cup { ProjectInputs("Batch Projects", sl) :
              sl \in UNION { SlotLists(n) : n \in 1..MaxProjects } }

ConfigSidebar ==
    { Credentials(None, "tok", NoneT), Credentials(None, "", NoneT),
      Credentials(LongCookie, NoneT, NoneT) }

ConfigInit ==
    /\ \E c \in ConfigSidebar :
         /\ cookie = c.cookie
         /\ auth_token = c.authorization_key
         /\ cookie_file = c.cookie_file
    /\ project_inputs \in Configurations
    /\ projects = <<>>
    /\ generating = FALSE
    /\ generation_complete = FALSE
    /\ all_generated_images = <<>>
    /\ failed_prompts = <<>>
    /\ pc = "render"
    /\ valid_projects = <<>>
    /\ project_idx = 0
    /\ batch_start = 0
    /\ wpc = [j \in JobIds |-> "none"]
    /\ wcred = [j \in JobIds |-> NoCred]
    /\ batch_results = <<>>
    /\ sessionCalls = 0
    /\ genCalls = 0
    /\ tokenWrites = [j \in JobIds |-> 0]
    /\ outcome = [j \in JobIds |-> "none"]
    /\ client = NoClient
    /\ request = NoRequest
    /\ reply = NoReply
    /\ cli = NoCli

\* The project section runs; the Generate button's handler comes next. In
\* single mode the handler tests the widgets themselves (lines 1060-1066),
\* which are blank exactly when nothing was stored.
RenderProjectInputs ==
    /\ pc = "render"
    /\ projects' = StoreProjects(project_inputs.slots)
    /\ pc' = "idle"
    /\ UNCHANGED << cookie, auth_token, cookie_file, project_inputs,
                    session, locals, workers, ghosts, direct >>

ConfigNext == RenderProjectInputs \/ Next

ConfigSpec == ConfigInit /\ [][ConfigNext]_vars

\* ------------------------------------------- the command-line program
\* imagefx_cli.py main with the library client (imagefx.py): one ImageFX for
\* the whole run, the prompts generated one after the other.

\* Library client, check_token after the exchange returned resp (lines
\* 151-157): the result of get_auth_token is not looked at beyond Err.
lib_check_token_after(c, resp) == get_auth_token(c, resp, TRUE)

CliSessionResponses ==
    SessionResponses \cup { SessionBody(TRUE, TRUE, ""), SessionBody(TRUE, TRUE, NoneT) }

CliGenResponses ==
    { GenErr("500 Server Error"),
      GenBody(TRUE, TRUE, <<>>),
      GenBody(TRUE, TRUE, << Panel(TRUE, TRUE, [k \in 1..ImagesPerCall |-> ImageEntry(k)]) >>) }

CliCredentials ==
    { Credentials(None, "tok", NoneT), Credentials(LongCookie, NoneT, NoneT) }

CliPrompts == { [k \in 1..n |-> PromptText(1, k)] : n \in 1..MaxCliPrompts }

CliInit ==
    /\ cookie = None
    /\ auth_token = "tok"
    /\ cookie_file = NoneT
    /\ HandlerIdle
    /\ client = NoClient
    /\ request = NoRequest
    /\ reply = NoReply
    /\ cli \in { [NoCli EXCEPT !.pc = "args", !.prompts = ps, !.credentials = c] :
                    ps \in CliPrompts, c \in CliCredentials }

\* One generate_image call of the library client: check_token, the exchange
\* where it is needed, the POST and the decoding of its answer. posted tells
\* whether the POST was issued and bearer the token it carried.
Attempt(index, posted, bearer, result, c) ==
    [index |-> index, posted |-> posted, bearer |-> bearer, result |-> result,
     credentials |-> c]

lib_generate_image(c, index, sresp, gresp) ==
    IF ~TruthyT(c.authorization_key) /\ ~Truthy(c.cookie)
    THEN Attempt(index, FALSE, NoneT, GenFail(ErrBothMissing), c)
    ELSE LET token_res == IF NeedsExchange(c) THEN lib_check_token_after(c, sresp)
                          ELSE Ok(c, FALSE)
             c2 == token_res.credentials
         IN  IF token_res.tag = "Err"
             THEN Attempt(index, FALSE, NoneT, GenFail(token_res.err), c2)
             ELSE Attempt(index, TRUE, c2.authorization_key,
                          lib_generate_image_after(gresp), c2)

\* Lines 212-215.
CliInitialize ==
    /\ cli.pc = "args"
    /\ LET made == ImageFX_init(cli.credentials)
       IN  cli' = IF made.ok
                  THEN [cli EXCEPT !.pc = "loop", !.credentials = made.credentials,
                                   !.prompt_index = 1]
                  ELSE [cli EXCEPT !.pc = "exit1"]
    /\ UNCHANGED << inputs, session, pc, locals, workers, ghosts, client, request, reply >>

\* Lines 220-249, one iteration; an exception out of generate_image reaches
\* the handler at lines 294-296 and the program exits.
CliPromptImages(images, prompt_text) ==
    [k \in 1..Len(images) |-> [images[k] EXCEPT !.prompt = prompt_text]]

CliGenerate ==
    /\ cli.pc = "loop"
    /\ cli.prompt_index <= Len(cli.prompts)
    /\ \E sresp \in CliSessionResponses, gresp \in CliGenResponses :
         LET a == lib_generate_image(cli.credentials, cli.prompt_index, sresp, gresp)
             logged == [cli EXCEPT !.attempts = Append(@, a),
                                   !.credentials = a.credentials]
         IN  cli' = IF a.result.tag = "Raise"
                    THEN [logged EXCEPT !.pc = "exit1"]
                    ELSE IF a.result.tag = "Err"
                    THEN [logged EXCEPT !.prompt_index = @ + 1]
                    ELSE [logged EXCEPT
                            !.prompt_index = @ + 1,
                            !.all_generated_images =
                               @ \o CliPromptImages(a.result.images,
                                                    cli.prompts[cli.prompt_index])]
    /\ UNCHANGED << inputs, session, pc, locals, workers, ghosts, client, request, reply >>

\* Lines 251-277: without an image the program exits with status 1, else
\* every image is saved.
CliSave ==
    /\ cli.pc = "loop"
    /\ cli.prompt_index > Len(cli.prompts)
    /\ cli' = IF cli.all_generated_images = <<>>
              THEN [cli EXCEPT !.pc = "exit1"]
              ELSE [cli EXCEPT !.pc = "saved", !.saved = cli.all_generated_images]
    /\ UNCHANGED << inputs, session, pc, locals, workers, ghosts, client, request, reply >>

CliNext == CliInitialize \/ CliGenerate \/ CliSave

CliSpec == CliInit /\ [][CliNext]_vars

\* ------------------------------------------------------------ the claims
\* The prompts of the run: (project, 1-based position in the project).
AllJobs ==
    { j \in JobIds : j[1] <= Len(valid_projects)
                     /\ j[2] <= Len(valid_projects[j[1]].prompts) }

FailuresOf(j) ==
    Cardinality({ k \in 1..Len(failed_prompts) :
                    /\ failed_prompts[k].prompt = JobText(j)
                    /\ failed_prompts[k].project_title = valid_projects[j[1]].title })

ImagesOf(j) ==
    Cardinality({ k \in 1..Len(all_generated_images) :
                    /\ all_generated_images[k].prompt = JobText(j)
                    /\ all_generated_images[k].project_title = valid_projects[j[1]].title })

\* C1: when a Streamlit batch run is Complete, every prompt whose generation
\* call returned an error has exactly one entry in failed_prompts and no
\* image, and every prompt whose call succeeded has no entry in
\* failed_prompts and all the images the call returned.
C1_FailureIsolation ==
    pc = "complete" =>
        \A j \in AllJobs :
            /\ outcome[j] = "gen_err" => FailuresOf(j) = 1 /\ ImagesOf(j) = 0
            /\ outcome[j] = "ok" => FailuresOf(j) = 0 /\ ImagesOf(j) = ImagesPerCall

\* C2: a run with a project of more than 50 prompts issues no call to the
\* session endpoint and none to the generation endpoint, starts no worker
\* for any project, and never reaches Complete.
Oversized == \E p \in 1..Len(projects) : Len(projects[p].prompts) > 50

C2_OversizedRejected ==
    Oversized =>
        /\ sessionCalls = 0 /\ genCalls = 0
        /\ \A j \in JobIds : wpc[j] = "none"
        /\ pc \in {"idle", "returned", "rejected"}

\* A run rejected because its second project is oversized, the first being
\* within the limit.
C2_Witness ==
    /\ pc = "rejected"
    /\ Len(projects) >= 2
    /\ Len(projects[1].prompts) <= 50
    /\ Len(projects[2].prompts) = 51

\* C3: at most 3 attempts are in flight, all of the current batch, and while
\* the handler is not waiting on a batch (it is about to submit the next
\* batch or project, or has finished) no attempt is in flight.
C3_BoundedBatch ==
    /\ Cardinality(InFlight) <= 3
    /\ pc = "waiting" => InFlight \subseteq BatchJobs
    /\ pc # "waiting" => InFlight = {}

\* The second batch of a project is in flight after its first batch of three
\* was joined.
C3_Witness ==
    /\ pc = "waiting"
    /\ batch_start = 3
    /\ InFlight # {}
    /\ \A i \in 1..3 : wpc[<< project_idx, i >>] = "joined"

\* C4: while a run is under way generation_complete is False, and once the
\* run is Complete every prompt of every project has been attempted and its
\* outcome collected by the handler.
C4_CompleteAfterAll ==
    /\ pc \in {"running", "waiting", "rejected"} => ~generation_complete
    /\ pc = "complete" =>
          /\ generation_complete
          /\ \A j \in AllJobs : wpc[j] = "joined" /\ outcome[j] # "none"

\* A Complete run of two projects in which every prompt failed.
C4_Witness ==
    /\ pc = "complete"
    /\ Len(valid_projects) >= 2
    /\ \A j \in AllJobs : outcome[j] \in {"token_err", "gen_err"}
    /\ all_generated_images = <<>>

C6_NoWorkerWritesToken ==
    \A j \in JobIds : wpc[j] # "exchange" /\ tokenWrites[j] = 0

\* C6 (amended): every worker thread performs check_token's
\* check-then-mutate on the Credentials it constructed itself; it writes that
\* object's bearer token at most once, not before its own exchange returned,
\* and in a run authenticated by cookie it has written it by the time its
\* generation call is issued; no token is written when a bearer token was
\* supplied.
C6_WorkerWritesOwnToken ==
    \A j \in JobIds :
        /\ tokenWrites[j] <= 1
        /\ wpc[j] \in {"none", "queued", "exchange"} => tokenWrites[j] = 0
        /\ wpc[j] = "post" /\ ~TruthyT(auth_token) =>
              tokenWrites[j] = 1 /\ TruthyT(wcred[j].authorization_key)
        /\ TruthyT(auth_token) => tokenWrites[j] = 0

\* Two workers of one batch have each written the token of their own
\* Credentials and wait on their generation calls.
C6_Witness ==
    \E j, k \in JobIds :
        /\ j # k
        /\ wpc[j] = "post" /\ wpc[k] = "post"
        /\ tokenWrites[j] = 1 /\ tokenWrites[k] = 1

Started == { j \in JobIds : wpc[j] \notin {"none", "queued"} }

ExchangedTokens ==
    { r.access_token : r \in { x \in SessionResponses : x.ok /\ x.has_access_token } }

ResolutionFails == ~ImageFX_init(Credentials(cookie, auth_token, cookie_file)).ok

C8_ResolutionFailureAborts ==
    ResolutionFails =>
        /\ pc # "complete"
        /\ \A j \in JobIds : wpc[j] \notin {"done", "joined"}
        /\ sessionCalls = 0 /\ genCalls = 0

ExchangeFailed == \E j \in JobIds : outcome[j] = "token_err"

Posted == { j \in JobIds : wpc[j] = "post" \/ outcome[j] \in {"gen_err", "ok"} }

Exchanged ==
    { j \in JobIds : wpc[j] \in {"exchange", "post"}
                     \/ outcome[j] \in {"token_err", "gen_err", "ok"} }

C10_ShortCookieRejected ==
    client.made /\ cookie # None /\ Len(cookie) < 70 =>
        /\ ~client.ok /\ client.err = ErrInvalidCookie
        /\ sessionCalls = 0 /\ genCalls = 0

\* The cookie the length check sees: the session token of the cookie file
\* when a cookie file is given (None when the file yields none), else the
\* cookie as supplied.
EffectiveCookie ==
    IF TruthyT(cookie_file)
    THEN extract_session_token(parse_cookie_file(cookie_file))
    ELSE cookie

\* C10 (amended): constructing a client whose cookie in effect (after the
\* cookie file, if any, replaced it) is non-empty and has fewer than 70
\* characters fails with "Invalid cookie was provided.", also when a bearer
\* token is supplied, and no network call is made.
C10_EffectiveShortCookieRejected ==
    client.made /\ Truthy(EffectiveCookie) /\ Len(EffectiveCookie) < 70 =>
        /\ ~client.ok /\ client.err = ErrInvalidCookie
        /\ sessionCalls = 0 /\ genCalls = 0

\* A cookie of 69 characters supplied together with a bearer token was
\* rejected.
C10_Witness ==
    /\ client.made /\ ~client.ok
    /\ cookie = ShortCookie /\ auth_token = "tok" /\ ~TruthyT(cookie_file)

\* What is left of a cookie once one leading prefix, if any, is taken off.
Unprefixed(ck) ==
    IF startswith(ck, CookiePrefix)
    THEN SubSeq(ck, Len(CookiePrefix) + 1, Len(ck))
    ELSE ck

\* C11: the cookie of an accepted client is the prefix followed by the
\* cookie in effect without its own leading prefix (prepended once to a value
\* that lacks it, nothing added to a value that has it), and constructing a
\* client again from the resolved Credentials leaves them unchanged.
C11_PrefixOnce ==
    client.made /\ client.ok /\ Truthy(EffectiveCookie) =>
        /\ client.first.cookie = CookiePrefix \o Unprefixed(EffectiveCookie)
        /\ client.again => client.ok /\ client.credentials = client.first

\* An unprefixed cookie of 70 characters was resolved twice.
C11_Witness ==
    /\ client.again /\ client.ok
    /\ cookie = LongCookie /\ ~TruthyT(cookie_file)
    /\ client.credentials.cookie = CookiePrefix \o LongCookie

\* The cookies of the cookie file given, and the value of the first of the
\* three names the file holds (None when it holds none of them).
Jar == parse_cookie_file(cookie_file)

PriorityToken ==
    IF "__Secure-next-auth.session-token" \in DOMAIN Jar
    THEN Jar["__Secure-next-auth.session-token"]
    ELSE IF "session-token" \in DOMAIN Jar THEN Jar["session-token"]
    ELSE IF "auth-token" \in DOMAIN Jar THEN Jar["auth-token"]
    ELSE None

\* C12: a client constructed with an existing cookie file uses as its cookie
\* the value of the first name present among
\* __Secure-next-auth.session-token, session-token, auth-token (is accepted
\* with it, or rejected for its length); when that yields no token the
\* construction fails with the no-session-token error, whether or not a
\* bearer token was supplied.
C12_SessionKeyPriority ==
    client.made /\ ~client.again /\ TruthyT(cookie_file) /\ PathExists(cookie_file) =>
        IF Truthy(PriorityToken)
        THEN /\ client.credentials.cookie \in
                   { PriorityToken, CookiePrefix \o Unprefixed(PriorityToken) }
             /\ client.ok \/ client.err = ErrInvalidCookie
        ELSE ~client.ok /\ client.err = ErrNoSessionToken

\* A file holding all three names resolved to the value of the first one,
\* a bearer token being supplied as well.
C12_Witness ==
    /\ client.made /\ client.ok
    /\ cookie_file = "all.txt" /\ auth_token = "tok"
    /\ client.credentials.cookie
         = CookiePrefix \o CookieFiles["all.txt"]["__Secure-next-auth.session-token"]

\* C13: a request body built for model "IMAGEN_4" has modelNameType
\* "IMAGEN_3_5", not "IMAGEN_4", whatever the count, seed and aspect ratio;
\* the models IMAGEN_2, IMAGEN_3_1 and IMAGEN_3_5 pass through unchanged.
C13_Imagen4Alias ==
    request.impl # "none" =>
        /\ request.prompt.model = "IMAGEN_4" => request.body.modelNameType = "IMAGEN_3_5"
        /\ request.prompt.model \in {"IMAGEN_2", "IMAGEN_3_1", "IMAGEN_3_5"} =>
              request.body.modelNameType = request.prompt.model

\* The Streamlit client built a body for IMAGEN_4 with a count and a seed.
C13_Witness ==
    /\ request.impl = "streamlit"
    /\ request.prompt.model = "IMAGEN_4"
    /\ request.prompt.count = << 10 >> /\ request.prompt.seed = << 7 >>
    /\ request.body.modelNameType = "IMAGEN_3_5"

\* C14: a request body built by either client for model "IMAGEN_3" and a
\* variant of the allowed set has that variant as modelNameType and
\* "IMAGE_ASPECT_RATIO_UNSPECIFIED" as aspectRatio.
C14_Imagen3Variant ==
    /\ request.impl # "none"
    /\ request.prompt.model = "IMAGEN_3"
    /\ request.prompt.aspect_ratio \in Imagen3Variants
    => /\ request.body.modelNameType = request.prompt.aspect_ratio
       /\ request.body.aspectRatio = "IMAGE_ASPECT_RATIO_UNSPECIFIED"

\* C15 (as stated): candidatesCount is 4 when count is unset, zero or
\* negative and count otherwise; seed is 0 when unset and seed otherwise.
C15_DefaultsNonPositive ==
    request.impl # "none" =>
        /\ request.body.candidatesCount =
              IF request.prompt.count = NoneI \/ request.prompt.count[1] <= 0
              THEN 4 ELSE request.prompt.count[1]
        /\ request.body.seed =
              IF request.prompt.seed = NoneI THEN 0 ELSE request.prompt.seed[1]

\* C15 (amended): candidatesCount is 4 when count is unset or zero and count
\* otherwise, a negative count included; seed is 0 when unset and seed
\* otherwise.
C15_DefaultsUnsetOrZero ==
    request.impl # "none" =>
        /\ request.body.candidatesCount =
              IF request.prompt.count = NoneI \/ request.prompt.count[1] = 0
              THEN 4 ELSE request.prompt.count[1]
        /\ request.body.seed =
              IF request.prompt.seed = NoneI THEN 0 ELSE request.prompt.seed[1]

\* A body built for a count of zero and no seed.
C15_Witness ==
    /\ request.impl = "library"
    /\ request.prompt.count = << 0 >> /\ request.prompt.seed = NoneI
    /\ request.body.candidatesCount = 4 /\ request.body.seed = 0

\* The image list of a decoded response, where it has one.
ImageList(resp) ==
    IF resp.ok /\ resp.json /\ resp.has_imagePanels /\ resp.imagePanels # <<>>
          /\ resp.imagePanels[1].has_generatedImages /\ resp.imagePanels[1].is_list
    THEN resp.imagePanels[1].generatedImages
    ELSE <<>>

\* A 2xx response with nothing to extract: invalid JSON, no imagePanels key,
\* imagePanels = [], or a first panel whose image list is empty or no list.
NothingToExtract(resp) ==
    /\ resp.ok
    /\ \/ ~resp.json
       \/ ~resp.has_imagePanels
       \/ resp.imagePanels = <<>>
       \/ /\ resp.imagePanels[1].has_generatedImages
          /\ \/ ~resp.imagePanels[1].is_list
             \/ resp.imagePanels[1].generatedImages = <<>>

\* C16: a 2xx response that is invalid JSON, lacks imagePanels, has an empty
\* imagePanels, or whose first panel's image list is empty or not a list, gives
\* an error result from either client, never a success and never an exception.
C16_NothingToExtractIsError ==
    reply.impl # "none" /\ NothingToExtract(reply.resp) => reply.result.tag = "Err"

\* The entries of a list from which an image can be extracted.
Extractable(entries) ==
    { k \in 1..Len(entries) : entries[k].is_dict /\ entries[k].has_encodedImage }

\* C17: for a non-empty image list, either client returns an error exactly
\* when no entry can be extracted, and otherwise a success with one image per
\* extractable entry, an entry's missing optional fields taking their defaults.
C17_PartialEntries ==
    reply.impl # "none" /\ ImageList(reply.resp) # <<>> =>
        LET entries == ImageList(reply.resp)
        IN  IF Extractable(entries) = {}
            THEN reply.result.tag = "Err"
            ELSE /\ reply.result.tag = "Ok"
                 /\ Len(reply.result.images) = Cardinality(Extractable(entries))
                 /\ \A k \in Extractable(entries) :
                       \E i \in 1..Len(reply.result.images) :
                          /\ reply.result.images[i].encoded_image = entries[k].encodedImage
                          /\ ~entries[k].has_seed => reply.result.images[i].seed = 0
                          /\ ~entries[k].has_prompt =>
                                reply.result.images[i].prompt = reply.prompt_text

\* The run is past its validation: the lists hold this run's entries only.
RunStarted == pc \in {"running", "complete"}

TitledImages(title) ==
    { k \in 1..Len(all_generated_images) : all_generated_images[k].project_title = title }

\* C18: every image in all_generated_images carries the text of the prompt
\* the caller supplied for it, not the prompt echoed by the upstream, and the
\* title of the project that prompt belongs to; at Complete every successful
\* call has all its images there.
C18_ImagesStamped ==
    RunStarted =>
        /\ \A k \in 1..Len(all_generated_images) :
              \E j \in AllJobs :
                 /\ outcome[j] = "ok"
                 /\ all_generated_images[k].prompt = JobText(j)
                 /\ all_generated_images[k].project_title = valid_projects[j[1]].title
        /\ pc = "complete" =>
              \A j \in AllJobs : outcome[j] = "ok" => ImagesOf(j) = ImagesPerCall

\* Projects A [cat, dog] and B [bird], every call successful: no failure,
\* two thirds of the images titled A and one third titled B.
C18_Witness ==
    /\ pc = "complete"
    /\ projects = << Project(1, 2), Project(2, 1) >>
    /\ \A j \in AllJobs : outcome[j] = "ok"
    /\ failed_prompts = <<>>
    /\ Len(all_generated_images) = 3 * ImagesPerCall
    /\ Cardinality(TitledImages("A")) = 2 * ImagesPerCall
    /\ Cardinality(TitledImages("B")) = ImagesPerCall

\* C19: every entry of failed_prompts carries the original text of its
\* prompt, the title of the project the prompt belongs to, and an index equal
\* to the prompt's 1-based position in that project's prompt list.
C19_FailureIndex ==
    RunStarted =>
        \A k \in 1..Len(failed_prompts) :
            \E j \in AllJobs :
               /\ outcome[j] \notin {"none", "ok"}
               /\ failed_prompts[k].prompt = JobText(j)
               /\ failed_prompts[k].project_title = valid_projects[j[1]].title
               /\ failed_prompts[k].index = j[2]

\* Some project of the configuration lacks its title or has no prompt.
EmptyConfigured ==
    \E p \in 1..Len(project_inputs.slots) : ~ProjectOk(project_inputs.slots[p])

\* C20: when a configured project is empty (no title, or no non-blank
\* prompt), the click on Generate ends in a rejection: no run starts with the
\* remaining projects, no worker is started and no network call is made.
C20_EmptyProjectRejected ==
    EmptyConfigured =>
        /\ pc \in {"render", "idle", "returned", "rejected"}
        /\ sessionCalls = 0 /\ genCalls = 0
        /\ \A j \in JobIds : wpc[j] = "none"

IsPrefix(s, t) == Len(s) <= Len(t) /\ SubSeq(t, 1, Len(s)) = s

\* A step taken while the run is Running keeps both lists as prefixes of
\* their new values, and changes them only when no worker is queued or
\* executing and every worker of the batch has been joined.
AppendStep ==
    pc \in {"running", "waiting"} =>
        /\ IsPrefix(all_generated_images, all_generated_images')
        /\ IsPrefix(failed_prompts, failed_prompts')
        /\ (all_generated_images' # all_generated_images
              \/ failed_prompts' # failed_prompts) =>
                 /\ InFlight = {}
                 /\ wpc' \in [JobIds -> {"none", "joined"}]

\* C21: while a run is Running, all_generated_images and failed_prompts only
\* grow at their end (nothing is removed, replaced or reordered), and they
\* change only in a step of the handler's own thread taken when no worker of
\* the batch is queued or executing, so no two appends run concurrently.
C21_AppendOnlyExclusive == [][AppendStep]_vars

\* Two members of one batch ended differently; the second batch's outcomes
\* were appended behind the first's.
C21_Witness ==
    /\ pc = "complete"
    /\ \E i, j \in AllJobs :
          /\ i[1] = j[1] /\ i # j
          /\ outcome[i] = "ok" /\ outcome[j] = "gen_err"
    /\ Len(failed_prompts) >= 2
    /\ Len(all_generated_images) >= 2 * ImagesPerCall

Min(a, b) == IF a < b THEN a ELSE b

\* ceil(n / 3)
BatchCount(n) == (n + 2) \div 3

\* The prompts of batch k of a project with n prompts.
BatchMembers(k, n) == (3 * (k - 1) + 1)..Min(3 * k, n)

Submitted == {"queued", "exchange", "post", "done"}

\* While the handler waits for a batch, that batch is batch k of the current
\* project for some k in 1..ceil(n/3) and its members are exactly the prompts
\* 3(k-1)+1 .. min(3k, n); every prompt of an earlier batch or an earlier
\* project has been submitted and joined, no prompt of a later batch or
\* project has been submitted; at Complete every prompt has been joined.
BatchPartition ==
    /\ pc = "waiting" =>
          LET n == Len(valid_projects[project_idx].prompts)
              k == (batch_start \div 3) + 1
          IN  /\ batch_start = 3 * (k - 1)
              /\ k \in 1..BatchCount(n)
              /\ \A j \in AllJobs :
                    IF j[1] < project_idx \/ (j[1] = project_idx /\ j[2] <= 3 * (k - 1))
                    THEN wpc[j] = "joined"
                    ELSE IF j[1] = project_idx /\ j[2] \in BatchMembers(k, n)
                    THEN wpc[j] \in Submitted
                    ELSE wpc[j] = "none"
    /\ pc = "complete" => \A j \in AllJobs : wpc[j] = "joined"
    /\ \A j \in JobIds \ AllJobs : wpc[j] = "none"

\* C22: throughout a run, a project of n prompts is worked through in
\* ceil(n/3) batches, batch k holding exactly the prompts 3(k-1)+1 ..
\* min(3k, n) in their order; every prompt belongs to one batch and is
\* submitted exactly once, and the projects are taken in the order given.
C22_BatchPartition == []BatchPartition

\* The second batch of a project with four prompts holds the fourth prompt.
C22_Witness ==
    /\ pc = "waiting"
    /\ Len(valid_projects[project_idx].prompts) = 4
    /\ batch_start = 3
    /\ wpc[<< project_idx, 4 >>] \in Submitted

\* The place of a job's batch in the run: projects in order, and within a
\* project its batches of three in order.
BatchRank(j) == j[1] * (MaxTotalPrompts + 1) + ((j[2] - 1) \div 3)

\* The batch rank of the prompt an entry belongs to, -1 when the entry
\* belongs to no prompt of the run.
RankOf(entry) ==
    IF \E p \in 1..Len(valid_projects) :
          /\ valid_projects[p].title = entry.project_title
          /\ \E i \in 1..Len(valid_projects[p].prompts) :
                valid_projects[p].prompts[i] = entry.prompt
    THEN LET p == CHOOSE q \in 1..Len(valid_projects) :
                     valid_projects[q].title = entry.project_title
             i == CHOOSE n \in 1..Len(valid_projects[p].prompts) :
                     valid_projects[p].prompts[n] = entry.prompt
         IN  BatchRank(<< p, i >>)
    ELSE -1

\* From position k on, every entry belongs to a prompt of the run and no
\* entry stands before an entry of an earlier batch (neighbours suffice,
\* ranks being totally ordered); prev is the rank of the entry before k.
RECURSIVE InBatchOrderFrom(_, _, _)
InBatchOrderFrom(list, k, prev) ==
    IF k > Len(list) THEN TRUE
    ELSE LET r == RankOf(list[k])
         IN  r >= 0 /\ prev <= r /\ InBatchOrderFrom(list, k + 1, r)

InBatchOrder(list) == InBatchOrderFrom(list, 1, 0)

CrossBatchOrder ==
    pc \in {"running", "waiting", "complete"} =>
        /\ InBatchOrder(all_generated_images)
        /\ InBatchOrder(failed_prompts)

\* C23: throughout a run, in all_generated_images and in failed_prompts
\* every entry of a prompt stands behind every entry of a prompt whose batch
\* came earlier in the same project or whose project came earlier; only
\* entries of one batch may stand in either order.
C23_CrossBatchOrder == []CrossBatchOrder

\* Within the first batch the second prompt's images stand before the
\* first's (it completed first); the second batch's images come last.
C23_Witness ==
    /\ pc = "complete"
    /\ Len(valid_projects) = 1
    /\ Len(valid_projects[1].prompts) = 4
    /\ Len(all_generated_images) = 4 * ImagesPerCall
    /\ all_generated_images[1].prompt = JobText(<<1, 2>>)
    /\ all_generated_images[Len(all_generated_images)].prompt = JobText(<<1, 4>>)
    /\ \E k \in 1..Len(all_generated_images) :
          all_generated_images[k].prompt = JobText(<<1, 1>>)

\* C24: after generate_image has built its payload, the caller's Prompt
\* object has the model, count, seed, aspect_ratio and prompt text it had
\* before the call.
C24_PromptUnchanged ==
    request.impl # "none" => request.prompt_after = request.prompt

\* C25: whatever the response (transport error aside, every 2xx body: not
\* JSON, JSON of any shape, empty imagePanels, entries lacking fields),
\* generate_image returns an Ok or an Err result and raises no exception.
C25_NeverRaises ==
    reply.impl # "none" => reply.result.tag \in {"Ok", "Err"}

\* The images the successful attempts of the CLI run returned.
RECURSIVE CliImagesOf(_, _)
CliImagesOf(attempts, prompts) ==
    IF attempts = <<>> THEN <<>>
    ELSE LET a == Head(attempts)
         IN  (IF a.result.tag = "Ok"
              THEN CliPromptImages(a.result.images, prompts[a.index])
              ELSE <<>>)
             \o CliImagesOf(Tail(attempts), prompts)

\* C26: when a CLI run ends, every prompt of the list has been attempted
\* exactly once, in order, whatever earlier prompts returned, and the images
\* of the prompts that succeeded have been saved.
C26_CliPromptIsolation ==
    cli.pc \in {"saved", "exit1"} =>
        /\ Len(cli.attempts) = Len(cli.prompts)
        /\ \A k \in 1..Len(cli.attempts) : cli.attempts[k].index = k
        /\ cli.saved = CliImagesOf(cli.attempts, cli.prompts)

\* C27: at Complete, every prompt of every project has either an entry in
\* failed_prompts or at least one image in all_generated_images, never both
\* and never neither, whatever error message its attempt ended with.
C27_ExactlyOneRecord ==
    pc = "complete" =>
        \A j \in AllJobs : (FailuresOf(j) >= 1) # (ImagesOf(j) >= 1)

\* C28: every generation POST carries a non-empty bearer token; when the
\* exchange answers with an empty or null access_token, generate_image
\* returns Err and issues no POST.
C28_BearerNonEmpty ==
    \A k \in 1..Len(cli.attempts) :
        cli.attempts[k].posted => TruthyT(cli.attempts[k].bearer)

OwnToken(j) ==
    IF TruthyT(auth_token)
    THEN wcred[j].authorization_key = auth_token /\ tokenWrites[j] = 0
    ELSE tokenWrites[j] = 1

\* A step changes the Credentials of at most one worker, that worker being
\* the one that takes the step, and never the values the workers were
\* constructed from.
OwnCredentialsStep ==
    /\ << cookie, auth_token, cookie_file >>' = << cookie, auth_token, cookie_file >>
    /\ \A j \in JobIds :
          wcred'[j] # wcred[j] =>
             /\ wpc'[j] # wpc[j]
             /\ \A k \in JobIds \ {j} : wcred'[k] = wcred[k] /\ tokenWrites'[k] = tokenWrites[k]

\* C30: each worker of a Streamlit run has its own Credentials: no step of one
\* worker changes another worker's Credentials or the shared values they
\* were built from, a worker's authorization_key is written by that worker
\* only, and the token a worker posts with was not written by another worker.
C30_OwnCredentials ==
    /\ [](\A j \in JobIds : wpc[j] = "post" => OwnToken(j))
    /\ [][OwnCredentialsStep]_vars

\* Two workers of one batch are at their POST, each with the token its own
\* exchange wrote.
C30_Witness ==
    /\ ~TruthyT(auth_token)
    /\ \E i, j \in JobIds :
          /\ i # j
          /\ wpc[i] = "post" /\ wpc[j] = "post"
          /\ tokenWrites[i] = 1 /\ tokenWrites[j] = 1

====
